---- MODULE Spec2Model ----
(***************************************************************************)
(* Model of rasterTools_legacy/point_sampling.py: class pointSampling.      *)
(*                                                                         *)
(* run() is modelled as a state machine whose steps are the statements of  *)
(* the band loop and the point loop (lines 170-216).  The pure parts (the  *)
(* window fitting of lines 183-200, the value filter of lines 203-208 and  *)
(* _calculateStats, lines 276-294) are operators, used by the actions.     *)
(*                                                                         *)
(* Numbers.  Coordinates and the pixel size are floats in the program; the *)
(* model measures them in integer units, so that a pixel of `res` units    *)
(* has sub-pixel positions.  int() of a float truncates toward zero.       *)
(* Pixel values are integers, also for floating bands (NaN and Inf are not *)
(* modelled).  A statistic is an exact fraction [n, d].                    *)
(***************************************************************************)
EXTENDS Integers, Sequences, FiniteSets, TLC

VARIABLES
    pc,        \* position in run(): see the actions
    exc,       \* "" or the name of the exception that ended run()
    options,   \* the parsed command line, line 82
    img,       \* the raster dataset ds_img (read only)
    disk,      \* the vector datasets on disk: path -> layer, or None
    disk0,     \* history: the vector datasets on disk when run() started
    self,      \* the instance fields self._radius, self._mode, ...
    target,    \* input_points, lines 155/157: the path of the opened dataset
    points,    \* the list `points` of line 168: <<x, y>> per feature
    b,         \* band position of the loop of line 170 (1-based here)
    p,         \* point position of the loop of line 181 (1-based here)
    xoff, yoff, xwin, ywin,   \* the locals of lines 183-200
    raw,       \* history: the array read at line 202, as it was read
    window,    \* the local `window` of lines 202-208
    data,      \* the local `data` of line 210
    log        \* history: the <<b, p>> pairs whose attribute was set, in order

vars == <<pc, exc, options, img, disk, disk0, self, target, points, b, p,
          xoff, yoff, xwin, ywin, raw, window, data, log>>

----------------------------------------------------------------------------
(* Bounds of the model.                                                    *)

MaxSize == 4        \* window fitting: rasters of 1..MaxSize columns and rows
MaxRadius == 2      \* window fitting: self._radius is 0..MaxRadius
MaxRes == 2         \* the pixel size is 1..MaxRes units
MaxVal == 2         \* pixel values are -1..MaxVal
MaxWin == 2         \* filtering: raw windows of 1..MaxWin rows and columns
MaxLen == 5         \* statistics: arrays of 0..MaxLen elements
MaxRunSize == 2     \* whole runs: rasters of 1..MaxRunSize columns and rows
MaxRunRadius == 1   \* whole runs: self._radius is 0..MaxRunRadius
MaxBands == 2       \* whole runs: rasters of 1..MaxBands bands

Values == (-1)..MaxVal

----------------------------------------------------------------------------
(* Python values.                                                          *)

None == [kind |-> "None"]

Abs(x) == IF x < 0 THEN -x ELSE x

\* int(a / d) for floats a, d with d > 0: truncation toward zero.
IntTrunc(a, d) == IF a >= 0 THEN a \div d ELSE -((-a) \div d)

\* An exception raised instead of a value.
Raise(name) == [kind |-> "raise", exc |-> name]

\* A numpy array: its shape and its elements in row-major order.
NdArray(shape, flat) == [kind |-> "ndarray", shape |-> shape, flat |-> flat]

\* np.array([])
EmptyArray == NdArray(<<0>>, <<>>)

\* len(array): the length of the first axis.
PyLen(array) == array.shape[1]

\* array.size
Size(array) == Len(array.flat)

----------------------------------------------------------------------------
(* The raster.                                                             *)

\* The value of the pixel (row, col), 0-based, of band `bandnum`.  A raster
\* is filled with a ramp (every pixel of every band a different value, all
\* >= 0) and, with fill "hole", holds the no-data value at pixel (0, 0).
PixelValue(image, bandnum, row, col) ==
    IF image.fill = "hole" /\ row = 0 /\ col = 0
    THEN image.nodata
    ELSE (bandnum - 1) * image.rows * image.cols + row * image.cols + col

\* Whether a read window lies within the raster.
InRaster(image, xo, yo, xw, yw) ==
    /\ xo >= 0 /\ yo >= 0 /\ xw >= 1 /\ yw >= 1
    /\ xo + xw <= image.cols /\ yo + yw <= image.rows

\* band.ReadAsArray(xoff, yoff, xwin, ywin), line 202: the window as a 2-D
\* array of ywin rows and xwin columns.  The binding allocates the array
\* first (numpy raises ValueError for a negative size); GDAL then refuses a
\* window that is not within the raster ("Access window out of range") and
\* the binding returns None.
ReadAsArray(image, bandnum, xo, yo, xw, yw) ==
    IF xw < 0 \/ yw < 0 THEN Raise("ValueError")
    ELSE IF InRaster(image, xo, yo, xw, yw)
    THEN NdArray(<<yw, xw>>,
                 [k \in 1..(yw * xw) |->
                    PixelValue(image, bandnum, yo + ((k - 1) \div xw), xo + ((k - 1) % xw))])
    ELSE None

----------------------------------------------------------------------------
(* Window fitting, lines 183-200.                                          *)

\* One axis of the window without lines 199-200: a radius of 0 gives a
\* window of size 0.
FitAxis_NoSinglePixel(off0, radius, extent) ==
    LET off1 == IF off0 < 0 THEN 0 ELSE off0
        win2 == IF off1 + radius * 2 > extent THEN extent - off1 ELSE radius * 2
    IN  [off |-> off1, win |-> win2]

\* Lines 185-191 (x) and 192-198 (y): one axis of the window.  off0 is the
\* offset of line 183/184.  The size assigned under `if off < 0` (line 186)
\* is assigned again by the if/else of lines 188-191, whichever branch runs.
\* Lines 199-200 make the window one pixel wide when the radius is 0.
FitAxis(off0, radius, extent) ==
    LET win1 == IF off0 < 0 THEN radius * 2 - Abs(off0) ELSE 0
        off1 == IF off0 < 0 THEN 0 ELSE off0
        win2 == IF off1 + radius * 2 > extent THEN extent - off1 ELSE radius * 2
        win3 == IF radius = 0 THEN 1 ELSE win2
    IN  [off |-> off1, win |-> win3]

\* Lines 183-184: the unclipped offsets of the window of `point`.
XOff0(point, image, radius) == IntTrunc(point[1] - image.ulx, image.res) - radius

YOff0(point, image, radius) == IntTrunc(image.uly - point[2], image.res) - radius

\* Lines 183-200.
FitWindow(point, image, radius) ==
    LET x == FitAxis(XOff0(point, image, radius), radius, image.cols)
        y == FitAxis(YOff0(point, image, radius), radius, image.rows)
    IN  [xoff |-> x.off, yoff |-> y.off, xwin |-> x.win, ywin |-> y.win]

----------------------------------------------------------------------------
(* Value filtering, lines 203-208.                                         *)

\* A value of the command line: optparse hands an option over as the text
\* the user typed (lines 61-67: no numeric type is declared for --dismiss,
\* --bands or --names).  Str(n) is the decimal text of the number n.
Str(n) == [kind |-> "str", num |-> n]

Num(n) == [kind |-> "num", num |-> n]

NaN == [kind |-> "nan"]

\* dt(value), line 205: the numpy scalar type of the band applied to
\* self._dismiss.  A decimal text converts to its number; None converts to
\* NaN for a floating type and is a TypeError for an integer type.
Dt(dtype, value) ==
    IF value.kind = "str" THEN Num(value.num)
    ELSE IF value.kind = "num" THEN Num(value.num)
    ELSE IF dtype = "float" THEN NaN
    ELSE Raise("TypeError")

\* element != scalar for a numpy scalar: NaN differs from everything.
NotEqual(element, scalar) == IF scalar.kind = "nan" THEN TRUE ELSE element # scalar.num

\* element == obj, line 207, for a Python object obj: a number compares by
\* value, a text or None is never equal to a number.
PyEquals(element, obj) == IF obj.kind = "num" THEN element = obj.num ELSE FALSE

\* array[array != scalar]: the elements that differ, as a flat array.
MaskNotEqual(array, scalar) ==
    LET kept == SelectSeq(array.flat, LAMBDA e : NotEqual(e, scalar))
    IN  NdArray(<<Len(kept)>>, kept)

\* Lines 203-208.  The result is the array handed to _calculateStats, or the
\* exception raised: len(None) is a TypeError.
FilterWindow(win, nodata, dismiss, dtype) ==
    IF win.kind = "None" THEN Raise("TypeError")
    ELSE IF PyLen(win) > 1
    THEN LET w1 == MaskNotEqual(win, Num(nodata))
             d  == Dt(dtype, dismiss)
         IN  IF d.kind = "raise" THEN d ELSE MaskNotEqual(w1, d)
    ELSE IF PyEquals(win.flat[1], dismiss) \/ PyEquals(win.flat[1], Num(nodata))
         THEN EmptyArray
         ELSE win

----------------------------------------------------------------------------
(* _calculateStats, lines 276-294.                                         *)

RECURSIVE GCD(_, _)
GCD(x, y) == IF y = 0 THEN x ELSE GCD(y, x % y)

\* The number n / d (d > 0) in lowest terms.
Frac(n, d) ==
    LET g == GCD(Abs(n), d)
    IN  [kind |-> "frac", n |-> n \div g, d |-> d \div g]

RECURSIVE SumSeq(_)
SumSeq(s) == IF s = <<>> THEN 0 ELSE Head(s) + SumSeq(Tail(s))

Range(s) == {s[i] : i \in DOMAIN s}

\* The k-th smallest element of s (1 <= k <= Len(s)).
Kth(s, k) ==
    CHOOSE v \in Range(s) :
        /\ Cardinality({i \in DOMAIN s : s[i] < v}) < k
        /\ Cardinality({i \in DOMAIN s : s[i] <= v}) >= k

\* np.median: the middle element, or the mean of the two middle elements.
Median(s) ==
    LET n == Len(s)
    IN  IF n % 2 = 1 THEN Frac(Kth(s, (n + 1) \div 2), 1)
        ELSE Frac(Kth(s, n \div 2) + Kth(s, n \div 2 + 1), 2)

Mean(s) == Frac(SumSeq(s), Len(s))

Min(s) == CHOOSE v \in Range(s) : \A w \in Range(s) : v <= w

MaxOf(s) == CHOOSE v \in Range(s) : \A w \in Range(s) : v >= w

\* np.bincount(s): the number of occurrences of 0, 1, ..., max(s), at
\* positions 1, 2, ..., max(s) + 1.  Defined for s without negative values.
Bincount(s) == [k \in 1..(MaxOf(s) + 1) |-> Cardinality({i \in DOMAIN s : s[i] = k - 1})]

\* counts.argmax(): the first position of the largest count, 0-based.
ArgMax(counts) ==
    (CHOOSE k \in DOMAIN counts :
        /\ \A j \in DOMAIN counts : counts[j] <= counts[k]
        /\ \A j \in DOMAIN counts : j < k => counts[j] < counts[k]) - 1

\* Lines 288-291: np.bincount raises ValueError on a negative value.
Majority(s) ==
    IF \E i \in DOMAIN s : s[i] < 0
    THEN Raise("ValueError")
    ELSE Frac(ArgMax(Bincount(s)), 1)

\* Lines 280-293: the statistic of a non-empty array.
Reduce(array, mode) ==
    IF mode = "median" THEN Median(array.flat)
    ELSE IF mode = "mean" THEN Mean(array.flat)
    ELSE IF mode = "min" THEN Frac(Min(array.flat), 1)
    ELSE IF mode = "max" THEN Frac(MaxOf(array.flat), 1)
    ELSE IF mode = "majority" THEN Majority(array.flat)
    ELSE None

\* _calculateStats without the test of line 277: numpy's statistic of an
\* empty array is NaN (median, mean), or an exception.
CalculateStats_NoSizeTest(array, mode, nodata) ==
    IF Size(array) = 0
    THEN (IF mode \in {"median", "mean"} THEN NaN
          ELSE IF mode \in {"min", "max", "majority"} THEN Raise("ValueError")
          ELSE None)
    ELSE Reduce(array, mode)

\* _calculateStats(array, mode, nodata), lines 276-294.
CalculateStats(array, mode, nodata) ==
    IF Size(array) = 0 THEN Frac(nodata, 1) ELSE Reduce(array, mode)

----------------------------------------------------------------------------
(* Band lists, field names and the vector layer.                           *)

\* An entry of self._bands: a number (the default of line 138) or the text
\* of a number (line 102: the pieces of options.bands.split(',')).
Number(n) == [kind |-> "int", num |-> n]

\* Texts are sequences of characters.
DigitChars == <<"0", "1", "2", "3", "4", "5", "6", "7", "8", "9">>

NameChars == {"a", "b", "d", "n", "x", "_"} \cup Range(DigitChars)

\* The longest field name lines 66 and 142 allow.
MaxNameLen == 10

\* 'band_{b}'.format(b=bn), line 145, for a band entry bn below 10.
BandName(bn) == <<"b", "a", "n", "d", "_", DigitChars[bn.num + 1]>>

\* Line 142: re.sub(r'[^a-zA-Z0-9_]', r'', n), cut to 10 characters when n
\* is longer than 10.
Sanitize(text) ==
    LET clean == SelectSeq(text, LAMBDA c : c \in NameChars)
    IN  IF Len(text) <= MaxNameLen THEN clean
        ELSE SubSeq(clean, 1, IF Len(clean) < MaxNameLen THEN Len(clean) ELSE MaxNameLen)

\* Lines 140-141: the descriptions of the metadata entries 'Band_<n>=<text>'
\* whose number n is in self._bands, in the order of the metadata list.
\* (`n in self._bands` compares a number with the entries: a text is never
\* equal to a number.)
DescribedNames(meta, bands) ==
    LET chosen == SelectSeq(meta, LAMBDA m : \E i \in DOMAIN bands : bands[i] = Number(m.band))
    IN  [k \in DOMAIN chosen |-> chosen[k].text]

\* Lines 139-145 when no names are given.
DefaultNames(meta, bands) ==
    LET described == DescribedNames(meta, bands)
        cleaned == [k \in DOMAIN described |-> Sanitize(described[k])]
    IN  IF cleaned = <<>> THEN [k \in DOMAIN bands |-> BandName(bands[k])] ELSE cleaned

Null == [kind |-> "null"]

\* A Python list.
List(items) == [kind |-> "list", items |-> items]

Layer(features, flds) == [kind |-> "layer", features |-> features, fields |-> flds]

\* The position (1-based) of the first element of `s` that is `x`, or 0.
IndexOf(s, x) ==
    IF \E i \in DOMAIN s : s[i] = x
    THEN CHOOSE i \in DOMAIN s : s[i] = x /\ \A j \in 1..(i - 1) : s[j] # x
    ELSE 0

RemoveAt(s, i) == [k \in 1..(Len(s) - 1) |-> IF k < i THEN s[k] ELSE s[k + 1]]

FieldNames(flds) == [k \in DOMAIN flds |-> flds[k].name]

\* Lines 162-166: `fields` is the list of names before the loop; for every
\* name that is in it, the field at the name's position in that list is
\* deleted from the layer (a position the layer no longer has is an error
\* that OGR reports without raising).
RECURSIVE DeleteFields(_, _, _)
DeleteFields(flds, snapshot, names) ==
    IF names = <<>> THEN flds
    ELSE LET i == IndexOf(snapshot, Head(names))
             rest == IF i = 0 \/ i > Len(flds) THEN flds ELSE RemoveAt(flds, i)
         IN  DeleteFields(rest, snapshot, Tail(names))

\* Lines 175-178: the type of the new field.
FieldType(mode, dtype) ==
    IF mode # "majority" THEN (IF dtype = "int" THEN "Integer" ELSE "Real") ELSE "Integer"

\* lyr.CreateField(field), line 179: a new field, unset in every feature.
CreateField(lyr, name, type) ==
    [lyr EXCEPT !.fields =
        Append(@, [name |-> name, type |-> type,
                   values |-> [k \in DOMAIN lyr.features |-> Null]])]

\* The value an attribute of the given type takes: an integer field keeps
\* the integral part of a number; None leaves the attribute null.
Stored(type, value) ==
    IF value.kind # "frac" THEN Null
    ELSE IF type = "Integer" THEN Frac(IntTrunc(value.n, value.d), 1)
    ELSE value

\* Lines 212-214: feature number `fid` (0-based) takes `value` in the first
\* field called `name`.
SetField(lyr, fid, name, value) ==
    LET i == IndexOf(FieldNames(lyr.fields), name)
    IN  [lyr EXCEPT !.fields[i].values[fid + 1] = Stored(lyr.fields[i].type, value)]

\* The attribute of feature `fid` (0-based) in the first field called `name`.
GetField(lyr, fid, name) ==
    LET i == IndexOf(FieldNames(lyr.fields), name)
    IN  IF i = 0 THEN Null ELSE lyr.fields[i].values[fid + 1]

----------------------------------------------------------------------------
(* run(), lines 122-223.                                                   *)

Fail(name) ==
    /\ pc' = "error"
    /\ exc' = name

BandNum == self._bands.items[b].num

Locals == <<xoff, yoff, xwin, ywin, raw, window, data>>

\* Line 125, checkOptions (lines 80-120).  A missing image or points option
\* ends the program (sys.exit); os.path.exists(None) is a TypeError, so does
\* a missing --output; an existing output without --overwrite is reported
\* and checkOptions goes on.
CheckOptions ==
    /\ pc = "checkOptions"
    /\ UNCHANGED <<options, img, disk0, disk, target, points, b, p, Locals, log>>
    /\ IF ~options.image \/ ~options.points
       THEN Fail("SystemExit") /\ UNCHANGED self
       ELSE IF ~options.output
       THEN /\ Fail("TypeError")
            /\ self' = [self EXCEPT !._output = options.output,
                                    !._overwrite = options.overwrite]
       ELSE /\ self' = [_output |-> options.output,
                        _overwrite |-> options.overwrite,
                        _radius |-> options.radius,
                        _mode |-> options.mode,
                        _bands |-> options.bands,
                        _dismiss |-> options.dismiss,
                        _names |-> options.names]
            /\ pc' = "resolve"
            /\ UNCHANGED exc

\* Lines 126-145: the projections match (no reprojection), the raster is
\* opened, and the band list and the field names take their defaults.
Resolve ==
    /\ pc = "resolve"
    /\ LET bands == IF self._bands.kind = "None"
                    THEN [k \in 1..img.count |-> Number(k)]
                    ELSE self._bands.items
           names == IF self._names.kind = "None"
                    THEN DefaultNames(img.meta, bands)
                    ELSE self._names.items
       IN  self' = [self EXCEPT !._bands = List(bands), !._names = List(names)]
    /\ pc' = "openVector"
    /\ UNCHANGED <<exc, options, img, disk0, disk, target, points, b, p, Locals, log>>

\* Lines 147-168: the output dataset is made (an existing one is deleted
\* first when --overwrite is given; copying onto an existing dataset either
\* fails, which OGR reports without raising, or replaces it, depending on
\* the driver), the layer is opened for update, the fields called like the
\* new ones are deleted and the coordinates are read.
OpenVector ==
    /\ pc = "openVector"
    /\ \E replaces \in BOOLEAN :
         LET kept == IF disk.output.kind # "None" /\ self._overwrite THEN None ELSE disk.output
             copied == IF kept.kind = "None" \/ replaces THEN disk.input ELSE kept
             path == IF self._output THEN "output" ELSE "input"
             opened == IF self._output THEN copied ELSE disk.input
             lyr == [opened EXCEPT !.fields =
                        DeleteFields(@, FieldNames(opened.fields), self._names.items)]
         IN  /\ disk' = [disk EXCEPT ![path] = lyr]
             /\ target' = path
             /\ points' = lyr.features
    /\ b' = 1
    /\ pc' = "band"
    /\ UNCHANGED <<exc, options, img, disk0, self, p, Locals, log>>

\* Lines 170-179, one turn of the band loop: the band is fetched (a text is
\* no band number: TypeError; GetRasterBand returns None for a number the
\* raster does not have, and None has no GetNoDataValue: AttributeError),
\* and its field is created (self._names[b] may not exist: IndexError).
\* After the last band, lines 217-223 end run().
NextBand ==
    /\ pc = "band"
    /\ UNCHANGED <<options, img, disk0, self, target, points, b, Locals, log>>
    /\ IF b > Len(self._bands.items)
       THEN pc' = "done" /\ UNCHANGED <<exc, disk, p>>
       ELSE IF self._bands.items[b].kind # "int"
       THEN Fail("TypeError") /\ UNCHANGED <<disk, p>>
       ELSE IF BandNum \notin 1..img.count
       THEN Fail("AttributeError") /\ UNCHANGED <<disk, p>>
       ELSE IF b > Len(self._names.items)
       THEN Fail("IndexError") /\ UNCHANGED <<disk, p>>
       ELSE /\ disk' = [disk EXCEPT ![target] =
                          CreateField(@, self._names.items[b], FieldType(self._mode, img.dtype))]
            /\ p' = 1
            /\ pc' = "point"
            /\ UNCHANGED exc

\* Line 181: the next point of the band, or the next band (line 216).
NextPoint ==
    /\ pc = "point"
    /\ IF p > Len(points)
       THEN b' = b + 1 /\ pc' = "band"
       ELSE b' = b /\ pc' = "fit"
    /\ UNCHANGED <<exc, options, img, disk0, disk, self, target, points, p, Locals, log>>

\* Lines 183-200: the window of the point.
Fit ==
    /\ pc = "fit"
    /\ LET w == FitWindow(points[p], img, self._radius)
       IN  /\ xoff' = w.xoff
           /\ yoff' = w.yoff
           /\ xwin' = w.xwin
           /\ ywin' = w.ywin
    /\ pc' = "read"
    /\ UNCHANGED <<exc, options, img, disk0, disk, self, target, points, b, p, raw, window, data, log>>

\* Line 202: the window is read.
Read ==
    /\ pc = "read"
    /\ LET r == ReadAsArray(img, BandNum, xoff, yoff, xwin, ywin)
       IN  IF r.kind = "raise"
           THEN Fail(r.exc) /\ UNCHANGED <<raw, window>>
           ELSE window' = r /\ raw' = r /\ pc' = "filter" /\ UNCHANGED exc
    /\ UNCHANGED <<options, img, disk0, disk, self, target, points, b, p,
                   xoff, yoff, xwin, ywin, data, log>>

\* Lines 203-208: the no-data and dismissed values are taken out.
Filter ==
    /\ pc = "filter"
    /\ LET r == FilterWindow(window, img.nodata, self._dismiss, img.dtype)
       IN  IF r.kind = "raise"
           THEN Fail(r.exc) /\ UNCHANGED window
           ELSE window' = r /\ pc' = "stats" /\ UNCHANGED exc
    /\ UNCHANGED <<options, img, disk0, disk, self, target, points, b, p,
                   xoff, yoff, xwin, ywin, raw, data, log>>

\* Line 210: the statistic of the filtered window.
Stats ==
    /\ pc = "stats"
    /\ LET r == CalculateStats(window, self._mode, img.nodata)
       IN  IF r.kind = "raise"
           THEN Fail(r.exc) /\ UNCHANGED data
           ELSE data' = r /\ pc' = "setField" /\ UNCHANGED exc
    /\ UNCHANGED <<options, img, disk0, disk, self, target, points, b, p,
                   xoff, yoff, xwin, ywin, raw, window, log>>

\* The values feat.SetField(name, value) may hand to OGR: the value, and
\* for None either None (the attribute stays null) or the text 'None', which
\* a numeric field reads as 0, depending on the version of the binding.
Written(value) == IF value.kind = "None" THEN {None, Frac(0, 1)} ELSE {value}

\* Lines 211-215: the value becomes the attribute self._names[b] of the
\* feature with the point's position as its id.
WriteField ==
    /\ pc = "setField"
    /\ \E v \in Written(data) :
         disk' = [disk EXCEPT ![target] = SetField(@, p - 1, self._names.items[b], v)]
    /\ log' = Append(log, <<b, p>>)
    /\ p' = p + 1
    /\ pc' = "point"
    /\ UNCHANGED <<exc, options, img, disk0, self, target, points, b,
                   xoff, yoff, xwin, ywin, raw, window, data>>

Next ==
    \/ CheckOptions
    \/ Resolve
    \/ OpenVector
    \/ NextBand
    \/ NextPoint
    \/ Fit
    \/ Read
    \/ Filter
    \/ Stats
    \/ WriteField

----------------------------------------------------------------------------
(* Initial states.                                                         *)

Modes == {"median", "mean", "min", "max", "majority"}

\* A mode the program does not know.
OtherMode == "sum"

\* The instance fields after __init__, lines 34-43.
NewSelf ==
    [_output |-> FALSE, _overwrite |-> FALSE, _radius |-> 0, _mode |-> "median",
     _bands |-> None, _dismiss |-> None, _names |-> None]

\* The command line of a plain run: image, points and output given, the
\* rest at the defaults of lines 56-76.
PlainOptions ==
    [image |-> TRUE, points |-> TRUE, output |-> TRUE, overwrite |-> FALSE,
     radius |-> 0, mode |-> "median", bands |-> None, dismiss |-> None, names |-> None]

\* A raster with its upper left corner at the origin.
Raster(cols, rows, count, res, nodata, dtype, fill, meta) ==
    [cols |-> cols, rows |-> rows, count |-> count, ulx |-> 0, uly |-> 0, res |-> res,
     nodata |-> nodata, dtype |-> dtype, fill |-> fill, meta |-> meta]

\* All sequences over S of the lengths in lens.
SeqsOf(S, lens) == UNION {[1..n -> S] : n \in lens}

\* The centre of pixel (col, row), 0-based, of a raster at the origin.
Centre(col, row, res) == <<col * res + (res \div 2), -(row * res + (res \div 2))>>

\* The state in which run() starts: nothing is parsed yet.
AtStart(opts, image, input, output) ==
    /\ pc = "checkOptions"
    /\ exc = ""
    /\ options = opts
    /\ img = image
    /\ disk = [input |-> input, output |-> output]
    /\ disk0 = disk
    /\ self = NewSelf
    /\ target = ""
    /\ points = <<>>
    /\ b = 0 /\ p = 0
    /\ xoff = 0 /\ yoff = 0 /\ xwin = 0 /\ ywin = 0
    /\ raw = None
    /\ window = None
    /\ data = None
    /\ log = <<>>

\* The descriptions the raster's metadata may hold: none, one for band 1
\* only, or one for each of two bands, listed from the last band to the first.
Metas ==
    {<<>>,
     <<[band |-> 1, text |-> <<"a">>]>>,
     <<[band |-> 2, text |-> <<"b", "-", "x">>], [band |-> 1, text |-> <<"a">>]>>}

\* A dataset found at the output path before the run: one feature.
OldLayer == Layer(<<Centre(0, 0, MaxRes)>>, <<>>)

\* Whole runs over the configurations, on one raster of 2 x 2 pixels and
\* MaxBands bands with two points in it.
InitConfig ==
    \E image, pts, output, overwrite \in BOOLEAN,
       radius \in 0..MaxRunRadius,
       mode \in Modes \cup {OtherMode},
       bands \in {None, List(<<Str(1)>>), List(<<Str(2), Str(1)>>)},
       dismiss \in {None, Str(0)},
       dtype \in {"int", "float"},
       meta \in Metas,
       old \in {None, OldLayer} :
        AtStart([image |-> image, points |-> pts, output |-> output,
                 overwrite |-> overwrite, radius |-> radius, mode |-> mode,
                 bands |-> bands, dismiss |-> dismiss, names |-> None],
                Raster(2, 2, MaxBands, MaxRes, -1, dtype, "hole", meta),
                Layer(<<Centre(1, 0, MaxRes), Centre(0, 1, MaxRes)>>, <<>>),
                old)

\* The coordinates of the whole runs over the geometries: half a pixel
\* before the first pixel, in the first pixel, and in the pixel after the
\* last one, on either axis.
RunXs(cols, res) == {-(res \div 2), res \div 2, cols * res + (res \div 2)}

RunYs(rows, res) == {res \div 2, -(res \div 2), -(rows * res + (res \div 2))}

\* Whole runs over the geometries, on a plain command line.
InitGeometry ==
    \E cols, rows \in 1..MaxRunSize,
       radius \in 0..MaxRunRadius,
       mode \in {"median", "majority"},
       dismiss \in {None, Str(0)},
       dtype \in {"int", "float"},
       fill \in {"ramp", "hole"} :
        \E pts \in SeqsOf(RunXs(cols, MaxRes) \X RunYs(rows, MaxRes), 1..2) :
            AtStart([PlainOptions EXCEPT !.radius = radius, !.mode = mode,
                                         !.dismiss = dismiss],
                    Raster(cols, rows, 1, MaxRes, -1, dtype, fill, <<>>),
                    Layer(pts, <<>>),
                    None)

\* The values of --names after split(','): none, a name for each of two
\* bands, a single name, a name with a character outside a-z, A-Z, 0-9, _
\* and a name of more than MaxNameLen characters.
UserNames ==
    {None,
     List(<< <<"a">>, <<"b">> >>),
     List(<< <<"a">> >>),
     List(<< <<"a", "-", "b">>, <<"b">> >>),
     List(<< [k \in 1..(MaxNameLen + 1) |-> "a"], <<"b">> >>)}

\* A field the point layer has before the run, with a value in each of its
\* two features.
OldField(name) ==
    [name |-> name, type |-> "Integer", values |-> <<Frac(7, 1), Frac(8, 1)>>]

\* The field names the point layer may have before the run.
OldFieldNames ==
    {<<>>,
     << <<"x">> >>,
     << <<"x">>, <<"a">> >>,
     << <<"a">>, <<"b">>, <<"x">> >>,
     << <<"b">>, <<"a">> >>,
     << BandName(Number(1)), BandName(Number(2)), <<"x">> >>}

\* Whole runs over the field names, given and defaulted, and over the
\* fields the point layer has already.
InitNames ==
    \E names \in UserNames, old \in OldFieldNames, meta \in Metas :
        AtStart([PlainOptions EXCEPT !.names = names],
                Raster(2, 2, MaxBands, MaxRes, -1, "int", "hole", meta),
                Layer(<<Centre(1, 0, MaxRes), Centre(0, 1, MaxRes)>>,
                      [k \in DOMAIN old |-> OldField(old[k])]),
                None)

Init == InitConfig \/ InitGeometry \/ InitNames

Spec == Init /\ [][Next]_vars

\* The state of a plain run of one band and one point when the point loop
\* is at `at`: the options are parsed, the output is made and the field of
\* band 1 exists.
AtPoint(at, image, radius, mode, dismiss, point, win) ==
    LET opts == [PlainOptions EXCEPT !.radius = radius, !.mode = mode, !.dismiss = dismiss]
        name == BandName(Number(1))
    IN  /\ pc = at
        /\ exc = ""
        /\ options = opts
        /\ img = image
        /\ disk = [input |-> Layer(<<point>>, <<>>),
                   output |-> CreateField(Layer(<<point>>, <<>>), name,
                                          FieldType(mode, image.dtype))]
        /\ disk0 = [input |-> Layer(<<point>>, <<>>), output |-> None]
        /\ self = [_output |-> TRUE, _overwrite |-> FALSE, _radius |-> radius,
                   _mode |-> mode, _bands |-> List(<<Number(1)>>),
                   _dismiss |-> dismiss, _names |-> List(<<name>>)]
        /\ target = "output"
        /\ points = <<point>>
        /\ b = 1 /\ p = 1
        /\ xoff = 0 /\ yoff = 0 /\ xwin = 0 /\ ywin = 0
        /\ raw = win
        /\ window = win
        /\ data = None
        /\ log = <<>>

\* Window fitting (lines 183-202) over rasters, radii and points: the points
\* lie up to MaxRadius + 1 pixels outside of the raster, at every sub-pixel
\* position.
InitWindow ==
    \E cols, rows \in 1..MaxSize, res \in 1..MaxRes, radius \in 0..MaxRadius :
        \E x \in (-(MaxRadius + 1) * res)..((cols + MaxRadius + 1) * res),
           y \in (-(rows + MaxRadius + 1) * res)..((MaxRadius + 1) * res) :
            AtPoint("fit", Raster(cols, rows, 1, res, -1, "int", "ramp", <<>>),
                    radius, "median", None, <<x, y>>, None)

NextWindow == Fit \/ Read

SpecWindow == InitWindow /\ [][NextWindow]_vars

\* Value filtering (lines 203-208) over raw windows, no-data values, dismiss
\* values and element types.
InitFilter ==
    \E h \in 1..MaxWin, w \in 1..MaxWin, nodata \in Values,
       dismiss \in {None} \cup {Str(v) : v \in Values}, dtype \in {"int", "float"} :
        \E flat \in [1..(h * w) -> Values] :
            AtPoint("filter", Raster(w, h, 1, 1, nodata, dtype, "ramp", <<>>),
                    1, "median", dismiss, Centre(0, 0, 1), NdArray(<<h, w>>, flat))

NextFilter == Filter

SpecFilter == InitFilter /\ [][NextFilter]_vars

\* _calculateStats over filtered arrays, modes and no-data values.
InitStats ==
    \E flat \in SeqsOf(Values, 0..MaxLen), mode \in Modes \cup {OtherMode}, nodata \in Values :
        AtPoint("stats", Raster(1, 1, 1, 1, nodata, "int", "ramp", <<>>),
                MaxRadius, mode, None, Centre(0, 0, 1), NdArray(<<Len(flat)>>, flat))

NextStats == Stats

SpecStats == InitStats /\ [][NextStats]_vars

----------------------------------------------------------------------------
(* The properties.                                                         *)

Max(x, y) == IF x >= y THEN x ELSE y

\* floor(a / d), d > 0.
Floor(a, d) == a \div d

\* The point and the radius of the sample at hand.
Point == points[p]

Radius == self._radius

\* The pixel column and row of a point: floor((x - originX) / pixelSize)
\* and floor((originY - y) / pixelSize).
ColOf(pt) == Floor(pt[1] - img.ulx, img.res)

RowOf(pt) == Floor(img.uly - pt[2], img.res)

Col == ColOf(Point)

Row == RowOf(Point)

\* The nominal side of the window.
Side == Max(1, 2 * Radius)

\* The unclipped window of the point lies inside the raster.
StrictlyInside ==
    /\ Col - Radius >= 0 /\ Col - Radius + Side <= img.cols
    /\ Row - Radius >= 0 /\ Row - Radius + Side <= img.rows

\* C1: the window handed to the raster read (line 202) lies within the
\* raster: offsets >= 0, sides >= 1, offset + side <= extent on both axes.
C1_ReadWindowInRaster ==
    pc = "read" => InRaster(img, xoff, yoff, xwin, ywin)

\* C2: a point whose unclipped window lies inside the raster gets the
\* window of side max(1, 2 * radius) at the offsets (col - radius,
\* row - radius).
C2_InteriorWindow ==
    (pc = "read" /\ StrictlyInside) =>
        /\ xwin = Side /\ ywin = Side
        /\ xoff = Col - Radius /\ yoff = Row - Radius

\* A window of radius >= 1 strictly inside the raster has been fitted.
C2_Witness ==
    /\ pc = "read" /\ StrictlyInside
    /\ Radius >= 1 /\ Col > Radius /\ Row > Radius
    /\ xwin = 2 * Radius /\ xoff = Col - Radius

\* The side the claim C3 gives a window whose unclipped offset is off0 < 0:
\* 2 * radius shrunk by the overflow, limited by the extent.
ClippedSide(off0, extent) ==
    IF 2 * Radius + off0 > extent THEN extent ELSE 2 * Radius + off0

\* C3: on each axis, a window whose unclipped offset is -k (k > 0) starts at
\* 0 and is 2 * radius - k wide (limited only by the upper bound).  Stated
\* for the windows that still reach into the raster (k < 2 * radius).
C3_LowerClip ==
    pc = "read" =>
        /\ (XOff0(Point, img, Radius) < 0 /\ -XOff0(Point, img, Radius) < 2 * Radius) =>
              (xoff = 0 /\ xwin = ClippedSide(XOff0(Point, img, Radius), img.cols))
        /\ (YOff0(Point, img, Radius) < 0 /\ -YOff0(Point, img, Radius) < 2 * Radius) =>
              (yoff = 0 /\ ywin = ClippedSide(YOff0(Point, img, Radius), img.rows))

\* Whether the value v is the dismiss value the user gave.
IsDismissed(v) == self._dismiss.kind = "str" /\ v = self._dismiss.num

\* The elements of the raw window that are neither no-data nor dismissed.
ValidElements ==
    SelectSeq(raw.flat, LAMBDA v : v # img.nodata /\ ~IsDismissed(v))

\* C5: of a raw window of more than one element, whatever its shape, the
\* array handed to _calculateStats holds no no-data element, no dismissed
\* element, and every other element.
C5_FilteredWindow ==
    (pc = "stats" /\ raw.kind = "ndarray" /\ Size(raw) > 1) =>
        window.flat = ValidElements

\* C6: of a raw window of one element, the array handed to _calculateStats
\* is empty if the element is the no-data value or the dismiss value given
\* on the command line, and is that element otherwise.
C6_SingleElement ==
    (pc = "stats" /\ raw.kind = "ndarray" /\ Size(raw) = 1) =>
        window.flat = ValidElements

\* C7: without a dismiss value the filter raises nothing, for every element
\* type, and hands over the raw window less its no-data elements.  Stated
\* for the windows of more than one row (radius >= 1).
C7_NoDismiss ==
    (pc \in {"stats", "error"} /\ raw.kind = "ndarray" /\ PyLen(raw) > 1
        /\ self._dismiss.kind = "None") =>
        (pc = "stats" /\ window.flat = ValidElements)

\* C8: _calculateStats of an empty array is the no-data value, in each of
\* the five modes.
C8_EmptyGivesNoData ==
    (pc \in {"setField", "error"} /\ window.kind = "ndarray" /\ Size(window) = 0
        /\ self._mode \in Modes) =>
        (pc = "setField" /\ data = Frac(img.nodata, 1))

\* _calculateStats has returned the no-data value for an empty array in
\* mode majority.
C8_Witness ==
    /\ pc = "setField" /\ Size(window) = 0 /\ self._mode = "majority"
    /\ img.nodata = 0 /\ data = Frac(0, 1)

\* The number of elements of s that are v.
Count(s, v) == Cardinality({i \in DOMAIN s : s[i] = v})

\* The lowest of the most frequent elements of s.
LowestMostFrequent(s) ==
    CHOOSE v \in Range(s) :
        /\ \A w \in Range(s) : Count(s, w) <= Count(s, v)
        /\ \A w \in Range(s) : Count(s, w) = Count(s, v) => v <= w

\* C9: in mode majority, _calculateStats of a non-empty array of integers
\* returns the lowest of its most frequent values.
C9_Majority ==
    (pc \in {"setField", "error"} /\ window.kind = "ndarray" /\ Size(window) > 0
        /\ self._mode = "majority") =>
        (pc = "setField" /\ data = Frac(LowestMostFrequent(window.flat), 1))

\* What C9 says, for the arrays without a negative value.
MajorityOfNonNegative ==
    (pc \in {"setField", "error"} /\ window.kind = "ndarray" /\ Size(window) > 0
        /\ self._mode = "majority" /\ \A i \in DOMAIN window.flat : window.flat[i] >= 0) =>
        (pc = "setField" /\ data = Frac(LowestMostFrequent(window.flat), 1))

\* The point lies outside of the raster's extent.
Outside(pt) == ColOf(pt) \notin 0..(img.cols - 1) \/ RowOf(pt) \notin 0..(img.rows - 1)

\* The unclipped window of the point has no pixel in common with the raster.
Misses(pt) ==
    \/ ColOf(pt) - Radius + Side <= 0 \/ ColOf(pt) - Radius >= img.cols
    \/ RowOf(pt) - Radius + Side <= 0 \/ RowOf(pt) - Radius >= img.rows

\* C4: for a point outside of the raster run() does not fail, samples no
\* pixel and writes the band's no-data value.  Stated for the points whose
\* window has no pixel in common with the raster, on runs with a dismiss value.
C4_OutsideGivesNoData ==
    (/\ pc \in {"stats", "setField", "error"}
     /\ p \in DOMAIN points
     /\ self._dismiss.kind = "str"
     /\ Outside(Point) /\ Misses(Point)) =>
        /\ pc # "error"
        /\ window.kind = "ndarray" /\ Size(window) = 0
        /\ pc = "setField" => data = Frac(img.nodata, 1)

\* The band list the caller asked for: the numbers given with --bands, or
\* every band of the raster in ascending order.
RequestedBands ==
    IF options.bands.kind = "None"
    THEN [k \in 1..img.count |-> k]
    ELSE [k \in DOMAIN options.bands.items |-> options.bands.items[k].num]

\* The <<band position, point position>> pairs, band-major.
AllPairs(nb, np) == [k \in 1..(nb * np) |-> <<((k - 1) \div np) + 1, ((k - 1) % np) + 1>>]

IsPrefix(s, t) == Len(s) <= Len(t) /\ \A k \in DOMAIN s : s[k] = t[k]

\* The statistic of band `bandnum` at the point pt, as run() computes it.
SampleOf(bandnum, pt) ==
    LET w == FitWindow(pt, img, Radius)
        r == ReadAsArray(img, bandnum, w.xoff, w.yoff, w.xwin, w.ywin)
        f == IF r.kind = "raise" THEN r
             ELSE FilterWindow(r, img.nodata, self._dismiss, img.dtype)
    IN  IF f.kind = "raise" THEN f ELSE CalculateStats(f, self._mode, img.nodata)

\* The results are produced band-major, and the result of pair (i, j) is the
\* attribute of feature j in the field of band position i, computed from
\* band B[i] at point P[j].
OrderAndAttachment ==
    target # "" =>
        /\ IsPrefix(log, AllPairs(Len(RequestedBands), Len(points)))
        /\ points = disk[target].features
        /\ \A k \in DOMAIN log :
              (self._mode \in Modes /\ (k < Len(log) \/ pc # "setField")) =>
                GetField(disk[target], log[k][2] - 1, self._names.items[log[k][1]])
                    = Stored(FieldType(self._mode, img.dtype),
                             SampleOf(RequestedBands[log[k][1]], points[log[k][2]]))

\* C10: run() produces one result for every pair of a band of the list (in
\* the caller's order) and a point, band-major, each attached to its feature
\* and field.  Stated for the runs with image, points, output and a known
\* mode on a band list given by the caller.
C10_EveryPair ==
    /\ OrderAndAttachment
    /\ (/\ pc \in {"done", "error"}
        /\ options.image /\ options.points /\ options.output
        /\ options.mode \in Modes
        /\ options.bands.kind = "list") =>
           (pc = "done" /\ log = AllPairs(Len(RequestedBands), Len(points)))

\* The positions of run() at which a field of a band has been created: the
\* point loop, and the normal end after the band loop.
FieldCreated == pc \in {"point", "fit", "read", "filter", "stats", "setField", "done"}

\* C11: with a mode that is none of median, mean, min, max, majority run()
\* ends before a field is created and before a sample is computed or
\* written, and never hands a None result to a feature.  Stated for the
\* runs with image and points.
C11_UnknownModeRejected ==
    (options.image /\ options.points /\ options.mode \notin Modes) =>
        /\ ~FieldCreated
        /\ log = <<>>
        /\ ~(pc = "setField" /\ data.kind = "None")

\* A field name of at most MaxNameLen characters, all of them letters,
\* digits or underscores.
ValidName(name) == Len(name) <= MaxNameLen /\ \A k \in DOMAIN name : name[k] \in NameChars

\* The names under which run() has created a field so far: those of the
\* band positions up to the current one.
CreatedNames ==
    IF FieldCreated
    THEN {self._names.items[i] : i \in {j \in DOMAIN self._names.items :
                                            j <= b /\ j <= Len(self._bands.items)}}
    ELSE {}

\* The names run() puts in place of missing --names (from the band
\* descriptions, or band_<n>) are valid.
DefaultedNamesValid ==
    (options.names.kind = "None" /\ self._names.kind = "list") =>
        \A i \in DOMAIN self._names.items : ValidName(self._names.items[i])

\* C12: every name under which run() creates a field is valid, whether it
\* comes from --names, from a band description or from the band_<n>
\* default, and run() creates no field at all when one of the names given
\* with --names is not valid.
C12_FieldNamesValid ==
    /\ \A name \in CreatedNames : ValidName(name)
    /\ (/\ options.names.kind = "list"
        /\ \E i \in DOMAIN options.names.items : ~ValidName(options.names.items[i])) =>
            ~FieldCreated

\* The layer run() works on, once it is opened.
TargetFields == disk[target].fields

\* The output field names, as a set.
OutputNames == Range(self._names.items)

\* The fields of the point layer before the run that are not called like an
\* output field.
OtherFields == SelectSeq(disk0.input.fields, LAMBDA f : f.name \notin OutputNames)

\* The output names the point layer has as fields before the run.
ExistingOutputNames == OutputNames \cap Range(FieldNames(disk0.input.fields))

\* The fields called like an output field are removed and no others: before
\* the first field is created the layer has the other fields and only them;
\* afterwards each of them is still there with its values; and at the end
\* each output name is the name of exactly one field.
FieldsReplaced ==
    /\ (pc = "band" /\ b = 1) => TargetFields = OtherFields
    /\ \A k \in DOMAIN OtherFields :
          \E j \in DOMAIN TargetFields : TargetFields[j] = OtherFields[k]
    /\ pc = "done" =>
          \A name \in OutputNames :
              Cardinality({j \in DOMAIN TargetFields : TargetFields[j].name = name}) = 1

\* The runs whose layer is the point layer or a fresh copy of it.
WorksOnInput == target # "" /\ disk0.output.kind = "None"

\* With at most one output name among the fields of the point layer the
\* fields are replaced as FieldsReplaced says.
OneExistingFieldReplaced ==
    (WorksOnInput /\ Cardinality(ExistingOutputNames) <= 1) => FieldsReplaced

\* C13: whichever of the output field names exist in the point layer, and
\* however many, run() removes exactly those fields before it creates the
\* new ones: the other fields keep their values and each output name ends
\* up as exactly one field.
C13_ExistingFieldsReplaced == WorksOnInput => FieldsReplaced

\* An output dataset that exists and is not to be overwritten stays as it
\* is, and run() stops before it makes a field or a sample.
ExistingOutputKept ==
    (options.output /\ disk0.output.kind # "None" /\ ~options.overwrite) =>
        /\ disk.output = disk0.output
        /\ ~FieldCreated
        /\ log = <<>>

\* Without --output the options are accepted (run() does not end before the
\* point dataset is opened) and the point dataset is the one worked on.
NoOutputAppends ==
    (options.image /\ options.points /\ ~options.output) =>
        /\ ~(pc = "error" /\ target = "")
        /\ target \in {"", "input"}
        /\ disk.output = disk0.output

\* C14: a requested output that exists is left alone, and nothing is
\* sampled, unless --overwrite is given; without a requested output the
\* options are accepted and the results go to the point dataset.
C14_OutputHandling == ExistingOutputKept /\ NoOutputAppends

\* The names that name the band entry bn: its description in the metadata,
\* cleaned as line 142 does, or band_<n>.
NamesOfBand(bn) ==
    {BandName(bn)} \cup
    {Sanitize(img.meta[k].text) : k \in {j \in DOMAIN img.meta : img.meta[j].band = bn.num}}

\* Entry i of the names belongs to entry i of the bands: it is the i-th
\* name the caller gave, or a name of that band.
NamesFollowBands ==
    \A i \in DOMAIN self._bands.items :
        /\ i \in DOMAIN self._names.items
        /\ IF options.names.kind = "list"
           THEN self._names.items[i] = options.names.items[i]
           ELSE self._names.items[i] \in NamesOfBand(self._bands.items[i])

\* C15: once run() has resolved the bands and the names there is exactly
\* one name for every band of the list, and entry i of the names is the
\* name of entry i of the bands.
C15_OneNamePerBand ==
    (self._bands.kind = "list" /\ self._names.kind = "list") =>
        /\ Len(self._names.items) = Len(self._bands.items)
        /\ NamesFollowBands

\* The same for the runs without --names on a raster without band
\* descriptions: the band_<n> defaults follow the bands.
DefaultNamesFollowBands ==
    (/\ self._bands.kind = "list" /\ self._names.kind = "list"
     /\ options.names.kind = "None" /\ img.meta = <<>>) =>
        /\ Len(self._names.items) = Len(self._bands.items)
        /\ NamesFollowBands

====
